---- MODULE Spec2Model ----
(***************************************************************************)
(* sublist3r-rs in three layers.                                           *)
(*  - The per-source enumeration loop (Enumerator::enumerate,              *)
(*    src/src/enumerate/mod.rs), driven by an adversarial source adapter:  *)
(*    next_query may return None, search may fail, the body read may fail, *)
(*    and extract may return any set of hostnames (or nothing, for a body  *)
(*    it cannot parse).                                                    *)
(*  - The fan-out runner (run, src/src/lib.rs): one task per engine, a     *)
(*    mutex-guarded global set, join_all, printing.                        *)
(*  - The adapters themselves: extract and the query builders of the       *)
(*    engines, on strings (src/src/enumerate/*.rs, enumerate-derive); and  *)
(*    the adapters with state of their own under the loop: the preflight   *)
(*    of DNSDumpster, the cursor of VirusTotal, the static regex cell.     *)
(***************************************************************************)
EXTENDS Integers, Naturals, Sequences, FiniteSets, TLC

(* ------------------------------ bounds --------------------------------- *)

\* Hostnames the source can ever publish are drawn from 1..MaxHosts.  Kept at
\* least MaxRoundsCap, so that a source can make progress in every round the
\* page cap allows and the hostname supply never ends a run before the code does.
MaxHosts == 4

\* Settings.max_rounds of the adapter under enumeration ranges over 0..MaxRoundsCap.
MaxRoundsCap == 4

\* The fan-out runner is given 1..MaxTasks engines.
MaxTasks == 2

\* The pages given to the text extractors have at most MaxBodyLen symbols.
MaxBodyLen == 6

\* The JSON documents given to the JSON extractors have at most MaxItems records.
MaxItems == 2

\* A query is built from at most MaxKnown hostnames.
MaxKnown == 3

(* ------------------------- program constants --------------------------- *)

MAX_RETRIES == 10

MAX_BACKOFF == 16

\* retries and backoff_secs are u8 (unified with the u8 constants they are compared to).
U8 == 2 ^ 8

(* ------------------------------ values --------------------------------- *)

Hosts == 1 .. MaxHosts

\* A response body the extractor cannot parse.
Malformed == [parses |-> FALSE, hosts |-> {}]

\* A body is abstracted to whether the adapter's extractor can parse it and to
\* the hostnames it finds in it.
Bodies == [parses : {TRUE}, hosts : SUBSET Hosts] \cup {Malformed}

\* enumerate has not returned yet.
NotReturned == [returned |-> FALSE, value |-> {}]

\* enumerate returned the set s.
Returned(s) == [returned |-> TRUE, value |-> s]

VARIABLES
    MAX_ROUNDS,     \* Settings.max_rounds of the engine
    rounds,
    retries,
    page,
    backoff_secs,
    found,
    subdomains,
    pc,             \* position inside the loop body
    stop,           \* the `stop` field of the "completed" event
    ret,            \* the value enumerate returned
    sleeps,         \* history: the backoff sleeps taken, in seconds
    requests,       \* history: number of calls of search
    failures,       \* history: number of failed searches
    body_failures,  \* history: number of failed body reads
    iterations,     \* history: passes through the loop body that came back to its head
    progress_rounds \* history: rounds whose extract grew the set

VARIABLES
    engines,            \* run: number of engines selected
    join_set,           \* run: the spawned tasks, in spawning order
    guard,              \* run: the task holding the mutex of the global set, 0 if free
    global_subdomains,  \* run: the HashSet behind the mutex
    printed,            \* run: the hostnames printed, in printing order
    run_pc,             \* run: position of the runner
    returned            \* history: union of the sets the enumerate calls returned

VARIABLES
    engine,         \* adapter: which engine
    domain,         \* adapter: its domain field
    meta,           \* adapter: VirusTotal's meta field
    body,           \* adapter: the body given to extract
    known,          \* adapter: the set of hostnames given to the query builder
    extracted,      \* adapter: what extract did
    query,          \* adapter: the query built
    adapter_pc      \* adapter: the call about to be made, then "extracted" or "queried"

VARIABLES
    halves,             \* glued pages: the two bodies a and b, body being a ++ b
    extracted_halves,   \* glued pages: what extract did on a and on b
    blocks,             \* result blocks: the hostnames whose blocks make up the body
    authorization,      \* DNSDumpster: the token of the search call under way
    wire,               \* DNSDumpster, history: the requests sent
    vt_page,            \* VirusTotal.page
    last_cursor,        \* VirusTotal, history: the cursor of the response deserialized last
    last_malformed,     \* VirusTotal, history: the body read last did not deserialize
    instances,          \* the domains of two instances of one regex adapter
    RE,                 \* the static OnceLock<Regex> of the adapter's type
    callers,            \* where the extract call on each instance is
    outputs,            \* what the extract call on each instance returned
    inits,              \* history: how often the OnceLock was written
    once                \* CrtSh.once

enumerator_vars == <<MAX_ROUNDS, rounds, retries, page, backoff_secs, found, subdomains,
                     pc, stop, ret, sleeps, requests, failures, body_failures,
                     iterations, progress_rounds>>

runner_vars == <<engines, join_set, guard, global_subdomains, printed, run_pc, returned>>

adapter_vars == <<engine, domain, meta, body, known, extracted, query, adapter_pc>>

\* The variables of the scenarios that drive an adapter through several calls.
concat_vars == <<halves, extracted_halves>>

dumpster_vars == <<authorization, wire>>

cursor_vars == <<vt_page, last_cursor, last_malformed>>

regex_vars == <<instances, RE, callers, outputs, inits>>

scenario_vars == <<concat_vars, blocks, dumpster_vars, cursor_vars, regex_vars, once>>

\* What a step of one enumeration loop cannot touch.
elsewhere == <<runner_vars, adapter_vars, scenario_vars>>

vars == <<enumerator_vars, elsewhere>>

loop_state == <<rounds, retries, page, backoff_secs, found, subdomains>>

history == <<sleeps, requests, failures, body_failures, iterations>>

(* --------------------------- pure helpers ------------------------------ *)

\* Mutant: wrapping instead of saturating subtraction.
WrappingSub(a, b) == (a - b) % U8

\* u8::saturating_sub
SaturatingSub(a, b) == IF a >= b THEN a - b ELSE 0

\* Mutant: a body that does not parse yields a junk hostname.
ExtractKeepsGarbage(b) == IF b.parses THEN b.hosts ELSE {1}

\* Extract::extract of the engine: a parse failure yields the empty set.
Extract(b) == IF b.parses THEN b.hosts ELSE {}

\* Mutant: the pre-check compares with > instead of >=.
ShouldBreakStrict(r, t, b) == r > MAX_ROUNDS \/ t > MAX_RETRIES \/ b > MAX_BACKOFF

\* Mutant: the pre-check forgets the backoff cap.
ShouldBreakNoBackoff(r, t, b) == r >= MAX_ROUNDS \/ t >= MAX_RETRIES

\* Mutant: the pre-check forgets the retries cap.
ShouldBreakNoRetries(r, t, b) == r >= MAX_ROUNDS \/ b >= MAX_BACKOFF

\* The loop's termination pre-check.
ShouldBreak(r, t, b) == r >= MAX_ROUNDS \/ t >= MAX_RETRIES \/ b >= MAX_BACKOFF

(* ------------------------------ Init ----------------------------------- *)

\* The locals of enumerate before the first pass through the loop.
InitLocals ==
    /\ rounds = 0
    /\ retries = 0
    /\ page = 0
    /\ backoff_secs = 1
    /\ found = 0
    /\ subdomains = {}
    /\ pc = "head"
    /\ stop = FALSE
    /\ ret = NotReturned
    /\ sleeps = << >>
    /\ requests = 0
    /\ failures = 0
    /\ body_failures = 0
    /\ iterations = 0
    /\ progress_rounds = 0

\* No runner around the loop.
RunnerIdle ==
    /\ engines = 0
    /\ join_set = << >>
    /\ guard = 0
    /\ global_subdomains = {}
    /\ printed = << >>
    /\ run_pc = "idle"
    /\ returned = {}

\* What serde_json makes of a body for the engine's response type: whether
\* it deserializes and, if so, the strings of the field the engine projects
\* (hostname, name_value, id), the count and the cursor.
Doc(ok, items, count, cursor) ==
    [ok |-> ok, items |-> items, count |-> count, cursor |-> cursor]

\* Not a document of the engine's response type.
NoDoc == Doc(FALSE, << >>, 0, "null")

\* A response body: its text and what it deserializes to.
Response(text, doc) == [text |-> text, doc |-> doc]

EmptyResponse == Response(<< >>, NoDoc)

\* VirusTotal.meta: None, or Some(Meta) with its cursor ("null" for no cursor).
NoMeta == [some |-> FALSE, cursor |-> "null"]

SomeMeta(cursor) == [some |-> TRUE, cursor |-> cursor]

\* extract returned the set hosts.
Extracted(hosts) == [panicked |-> FALSE, hosts |-> hosts]

\* extract panicked.
ExtractPanicked == [panicked |-> TRUE, hosts |-> {}]

\* No pages glued.
ConcatIdle ==
    /\ halves = << << >>, << >> >>
    /\ extracted_halves = <<Extracted({}), Extracted({})>>

\* No page of result blocks.
BlocksIdle == blocks = << >>

\* DNSDumpster::search has not been entered, or has returned.
NotSearching == "unset"

\* No DNSDumpster request made.
DumpsterIdle ==
    /\ authorization = NotSearching
    /\ wire = << >>

\* No response deserialized yet.
Unread == "unread"

\* VirusTotal::new: page 0; nothing read.
CursorIdle ==
    /\ vt_page = 0
    /\ last_cursor = Unread
    /\ last_malformed = FALSE

\* OnceLock::new(): the empty cell; a filled cell holds one regex.
Uninit == << >>

\* No instance of a regex adapter at work.
RegexIdle ==
    /\ instances = << >>
    /\ RE = Uninit
    /\ callers = << >>
    /\ outputs = << >>
    /\ inits = 0

\* CrtSh::new: once is false.
OnceIdle == once = FALSE

\* No scenario under way.
ScenarioIdle ==
    /\ ConcatIdle
    /\ BlocksIdle
    /\ DumpsterIdle
    /\ CursorIdle
    /\ RegexIdle
    /\ OnceIdle

\* No adapter on its own.
AdapterIdle ==
    /\ ScenarioIdle
    /\ engine = "none"
    /\ domain = << >>
    /\ meta = NoMeta
    /\ body = EmptyResponse
    /\ known = {}
    /\ extracted = Extracted({})
    /\ query = << >>
    /\ adapter_pc = "idle"

Init ==
    /\ MAX_ROUNDS \in 0 .. MaxRoundsCap
    /\ InitLocals
    /\ RunnerIdle
    /\ AdapterIdle

(* ----------------------------- actions --------------------------------- *)

\* Loop head, pre-check true: "completed" with stop = false, break, return subdomains.
PreCheckBreak ==
    /\ pc = "head"
    /\ ShouldBreak(rounds, retries, backoff_secs)
    /\ pc' = "done"
    /\ stop' = FALSE
    /\ ret' = Returned(subdomains)
    /\ UNCHANGED <<elsewhere, MAX_ROUNDS, progress_rounds, loop_state, history>>

\* Loop head, pre-check false: go on to next_query.
PreCheckPass ==
    /\ pc = "head"
    /\ ~ShouldBreak(rounds, retries, backoff_secs)
    /\ pc' = "query"
    /\ UNCHANGED <<elsewhere, MAX_ROUNDS, progress_rounds, loop_state, stop, ret, history>>

\* next_query returned Some(query).
NextQuerySome ==
    /\ pc = "query"
    /\ pc' = "search"
    /\ UNCHANGED <<elsewhere, MAX_ROUNDS, progress_rounds, loop_state, stop, ret, history>>

\* Mutant: a None query is logged but the iteration goes on to search.
NextQueryNoneFallsThrough ==
    /\ pc = "query"
    /\ pc' = "search"
    /\ stop' = TRUE
    /\ UNCHANGED <<elsewhere, MAX_ROUNDS, progress_rounds, loop_state, ret, history>>

\* next_query returned None: "completed" with stop = true, break, return subdomains.
NextQueryNone ==
    /\ pc = "query"
    /\ pc' = "done"
    /\ stop' = TRUE
    /\ ret' = Returned(subdomains)
    /\ UNCHANGED <<elsewhere, MAX_ROUNDS, progress_rounds, loop_state, history>>

\* Mutant: a successful request starts the backoff over.
SearchOkResetsBackoff ==
    /\ pc = "search"
    /\ requests' = requests + 1
    /\ backoff_secs' = 1
    /\ pc' = "body"
    /\ UNCHANGED <<elsewhere, MAX_ROUNDS, progress_rounds, rounds, retries, page, found, subdomains, stop, ret,
                   sleeps, failures, body_failures, iterations>>

\* search(...).and_then(error_for_status) is Ok.
SearchOk ==
    /\ pc = "search"
    /\ requests' = requests + 1
    /\ pc' = "body"
    /\ UNCHANGED <<elsewhere, MAX_ROUNDS, progress_rounds, loop_state, stop, ret, sleeps, failures,
                   body_failures, iterations>>

\* Mutant: a failed search continues without being counted at all.
SearchFailedUncounted ==
    /\ pc = "search"
    /\ pc' = "head"
    /\ UNCHANGED <<elsewhere, MAX_ROUNDS, progress_rounds, loop_state, stop, ret, history>>

\* Mutant: a failed search also counts as a round.
SearchFailedCountsRound ==
    /\ pc = "search"
    /\ requests' = requests + 1
    /\ failures' = failures + 1
    /\ sleeps' = Append(sleeps, backoff_secs)
    /\ retries' = (retries + 1) % U8
    /\ backoff_secs' = (backoff_secs * 2) % U8
    /\ rounds' = rounds + 1
    /\ iterations' = iterations + 1
    /\ pc' = "head"
    /\ UNCHANGED <<elsewhere, MAX_ROUNDS, progress_rounds, page, found, subdomains, stop, ret,
                   body_failures>>

\* Mutant: the backoff starts over once it has reached 4 seconds.
SearchFailedResetsBackoff ==
    /\ pc = "search"
    /\ requests' = requests + 1
    /\ failures' = failures + 1
    /\ sleeps' = Append(sleeps, backoff_secs)
    /\ retries' = (retries + 1) % U8
    /\ backoff_secs' = IF backoff_secs >= 4 THEN 1 ELSE (backoff_secs * 2) % U8
    /\ iterations' = iterations + 1
    /\ pc' = "head"
    /\ UNCHANGED <<elsewhere, MAX_ROUNDS, progress_rounds, rounds, page, found, subdomains, stop, ret,
                   body_failures>>

\* Mutant: a failed search does not double the backoff.
SearchFailedNoDoubling ==
    /\ pc = "search"
    /\ requests' = requests + 1
    /\ failures' = failures + 1
    /\ sleeps' = Append(sleeps, backoff_secs)
    /\ retries' = (retries + 1) % U8
    /\ iterations' = iterations + 1
    /\ pc' = "head"
    /\ UNCHANGED <<elsewhere, MAX_ROUNDS, progress_rounds, rounds, page, backoff_secs, found, subdomains,
                   stop, ret, body_failures>>

\* Mutant: the sleep before the retry takes the doubled backoff.
SearchFailedSleepsDoubled ==
    /\ pc = "search"
    /\ requests' = requests + 1
    /\ failures' = failures + 1
    /\ sleeps' = Append(sleeps, (backoff_secs * 2) % U8)
    /\ retries' = (retries + 1) % U8
    /\ backoff_secs' = (backoff_secs * 2) % U8
    /\ iterations' = iterations + 1
    /\ pc' = "head"
    /\ UNCHANGED <<elsewhere, MAX_ROUNDS, progress_rounds, rounds, page, found, subdomains, stop, ret,
                   body_failures>>

\* search failed (network error or non-2xx): sleep backoff_secs, then
\* retries += 1, backoff_secs *= 2, continue.
SearchFailed ==
    /\ pc = "search"
    /\ requests' = requests + 1
    /\ failures' = failures + 1
    /\ sleeps' = Append(sleeps, backoff_secs)
    /\ retries' = (retries + 1) % U8
    /\ backoff_secs' = (backoff_secs * 2) % U8
    /\ iterations' = iterations + 1
    /\ pc' = "head"
    /\ UNCHANGED <<elsewhere, MAX_ROUNDS, progress_rounds, rounds, page, found, subdomains, stop, ret,
                   body_failures>>

\* Mutant: a failed body read does not count as a retry.
BodyFailedNoRetry ==
    /\ pc = "body"
    /\ body_failures' = body_failures + 1
    /\ iterations' = iterations + 1
    /\ pc' = "head"
    /\ UNCHANGED <<elsewhere, MAX_ROUNDS, progress_rounds, loop_state, stop, ret, sleeps, requests, failures>>

\* Mutant: a failed body read backs off like a failed search.
BodyFailedBacksOff ==
    /\ pc = "body"
    /\ retries' = (retries + 1) % U8
    /\ body_failures' = body_failures + 1
    /\ sleeps' = Append(sleeps, backoff_secs)
    /\ backoff_secs' = (backoff_secs * 2) % U8
    /\ iterations' = iterations + 1
    /\ pc' = "head"
    /\ UNCHANGED <<elsewhere, MAX_ROUNDS, progress_rounds, rounds, page, found, subdomains, stop, ret,
                   requests, failures>>

\* resp.text() failed: retries += 1, continue (no sleep).
BodyFailed ==
    /\ pc = "body"
    /\ retries' = (retries + 1) % U8
    /\ body_failures' = body_failures + 1
    /\ iterations' = iterations + 1
    /\ pc' = "head"
    /\ UNCHANGED <<elsewhere, MAX_ROUNDS, progress_rounds, rounds, page, backoff_secs, found, subdomains,
                   stop, ret, sleeps, requests, failures>>

\* Mutant: the extract result replaces the accumulator.
ExtendReplaces(s, b) == Extract(b)

\* subdomains.extend(extract(&body))
Extend(s, b) == s \cup Extract(b)

\* Mutant: a round without progress costs no retry.
DecideNoPenalty(f, t, p, s) ==
    IF f # Cardinality(s)
    THEN <<Cardinality(s), SaturatingSub(t, 2), p>>
    ELSE <<f, t, p + 1>>

\* Mutant: a round without progress asks for the same page again.
DecideKeepsPage(f, t, p, s) ==
    IF f # Cardinality(s)
    THEN <<Cardinality(s), SaturatingSub(t, 2), p>>
    ELSE <<f, (t + 1) % U8, p>>

\* Mutant: the page advances on progress rounds too.
DecideAlwaysAdvances(f, t, p, s) ==
    IF f # Cardinality(s)
    THEN <<Cardinality(s), SaturatingSub(t, 2), p + 1>>
    ELSE <<f, (t + 1) % U8, p + 1>>

\* Mutant: a round without progress skips a page.
DecideSkipsPage(f, t, p, s) ==
    IF f # Cardinality(s)
    THEN <<Cardinality(s), SaturatingSub(t, 2), p>>
    ELSE <<f, (t + 1) % U8, p + 2>>

\* Mutant: a progress round clears retries.
DecideResetsRetries(f, t, p, s) ==
    IF f # Cardinality(s)
    THEN <<Cardinality(s), 0, p>>
    ELSE <<f, (t + 1) % U8, p + 1>>

\* Mutant: a progress round does not record the new size.
DecideForgetsFound(f, t, p, s) ==
    IF f # Cardinality(s)
    THEN <<f, SaturatingSub(t, 2), p>>
    ELSE <<f, (t + 1) % U8, p + 1>>

\* The progress decision on the enlarged set s: <<found, retries, page>> afterwards.
Decide(f, t, p, s) ==
    IF f # Cardinality(s)
    THEN <<Cardinality(s), SaturatingSub(t, 2), p>>
    ELSE <<f, (t + 1) % U8, p + 1>>

\* resp.text() is Ok(b); with no suspension point in between: extract under
\* block_in_place, union into subdomains, progress decision.
ExtractAndDecideOn(b) ==
    /\ pc = "body"
    /\ subdomains' = Extend(subdomains, b)
    /\ LET d == Decide(found, retries, page, subdomains')
       IN  /\ found' = d[1]
           /\ retries' = d[2]
           /\ page' = d[3]
    /\ progress_rounds' = progress_rounds + (IF found # Cardinality(subdomains') THEN 1 ELSE 0)
    /\ pc' = "delay"
    /\ UNCHANGED <<elsewhere, MAX_ROUNDS, rounds, backoff_secs, stop, ret, history>>

\* The body read succeeds with whatever body the source sends.
ExtractAndDecide == \E b \in Bodies : ExtractAndDecideOn(b)

\* Mutant: the round is not counted after the delay.
DelayWithoutCount ==
    /\ pc = "delay"
    /\ iterations' = iterations + 1
    /\ pc' = "head"
    /\ UNCHANGED <<elsewhere, MAX_ROUNDS, progress_rounds, rounds, retries, page, backoff_secs,
                   found, subdomains, stop, ret, sleeps, requests, failures, body_failures>>

\* engine.delay() returned; rounds += 1; back to the loop head.
DelayAndCount ==
    /\ pc = "delay"
    /\ rounds' = rounds + 1
    /\ iterations' = iterations + 1
    /\ pc' = "head"
    /\ UNCHANGED <<elsewhere, MAX_ROUNDS, progress_rounds, retries, page, backoff_secs, found, subdomains,
                   stop, ret, sleeps, requests, failures, body_failures>>

Next ==
    \/ PreCheckBreak
    \/ PreCheckPass
    \/ NextQuerySome
    \/ NextQueryNone
    \/ SearchOk
    \/ SearchFailed
    \/ BodyFailed
    \/ ExtractAndDecide
    \/ DelayAndCount

Spec == Init /\ [][Next]_vars

\* Every call the loop awaits returns, so the loop always takes its next step.
FairSpec == Spec /\ WF_vars(Next)

TypeOK ==
    /\ MAX_ROUNDS \in 0 .. MaxRoundsCap
    /\ rounds \in Nat
    /\ retries \in 0 .. (U8 - 1)
    /\ page \in Nat
    /\ backoff_secs \in 0 .. (U8 - 1)
    /\ found \in Nat
    /\ subdomains \subseteq Hosts
    /\ pc \in {"head", "query", "search", "body", "delay", "done"}
    /\ stop \in BOOLEAN
    /\ ret \in [returned : BOOLEAN, value : SUBSET Hosts]

(* ------------------- sources with a fixed behaviour --------------------- *)

\* The successful round now extracting is the 1st, 3rd, 5th, ... of the run.
OddRound == rounds % 2 = 0

\* A source whose requests always succeed and that publishes exactly one new
\* hostname in every odd round and nothing new in every even round.
AlternatingExtract ==
    /\ ExtractAndDecide
    /\ IF OddRound
       THEN Cardinality(subdomains') = Cardinality(subdomains) + 1
       ELSE subdomains' = subdomains

\* max_rounds as far as the hostname supply lets the source alternate.
AlternatingInit ==
    /\ RunnerIdle
    /\ AdapterIdle
    /\ MAX_ROUNDS \in 0 .. 2 * MaxHosts
    /\ InitLocals

AlternatingNext ==
    \/ PreCheckBreak
    \/ PreCheckPass
    \/ NextQuerySome
    \/ SearchOk
    \/ AlternatingExtract
    \/ DelayAndCount

AlternatingSpec == AlternatingInit /\ [][AlternatingNext]_vars

\* A source whose every successful round publishes something new, and whose
\* requests may fail at any time.
ProgressingExtract ==
    /\ ExtractAndDecide
    /\ subdomains' # subdomains

\* max_rounds as far as the hostname supply lets every round make progress.
ProgressingInit ==
    /\ RunnerIdle
    /\ AdapterIdle
    /\ MAX_ROUNDS \in 0 .. MaxHosts
    /\ InitLocals

ProgressingNext ==
    \/ PreCheckBreak
    \/ PreCheckPass
    \/ NextQuerySome
    \/ SearchOk
    \/ SearchFailed
    \/ ProgressingExtract
    \/ DelayAndCount

ProgressingSpec == ProgressingInit /\ [][ProgressingNext]_vars

\* A source whose requests always succeed and that never publishes anything new.
StagnantExtract ==
    /\ ExtractAndDecide
    /\ subdomains' = subdomains

\* A page cap above the retry cap.
StagnantInit ==
    /\ RunnerIdle
    /\ AdapterIdle
    /\ MAX_ROUNDS \in (MAX_RETRIES + 1) .. (MAX_RETRIES + MaxRoundsCap)
    /\ InitLocals

StagnantNext ==
    \/ PreCheckBreak
    \/ PreCheckPass
    \/ NextQuerySome
    \/ SearchOk
    \/ StagnantExtract
    \/ DelayAndCount

StagnantSpec == StagnantInit /\ [][StagnantNext]_vars

\* Every call the loop awaits returns.
StagnantFairSpec == StagnantSpec /\ WF_vars(StagnantNext)

(* --------------------------- fan-out runner ----------------------------- *)
(* run (src/src/lib.rs): one task per engine; each task awaits its own      *)
(* enumerate, then locks the global set and extends it; the runner awaits   *)
(* join_all and prints the set.  enumerate is taken by its contract here:    *)
(* it returns some set of hostnames, or the task panics inside it.          *)

\* No enumeration loop of its own: the runner's tasks are in join_set.
EnumeratorIdle ==
    /\ MAX_ROUNDS = 0
    /\ InitLocals

\* A task: where it is, the set its enumerate returned until it is moved into
\* the global set, and (history) how often it has written the global set.
Task(p, f, w) == [pc |-> p, found |-> f, writes |-> w]

TaskIds == 1 .. Len(join_set)

AllFinished == \A i \in TaskIds : join_set[i].pc = "finished"

\* The orders in which a HashSet of these elements can be iterated.
Orders(s) ==
    {o \in [1 .. Cardinality(s) -> s] : \A i, j \in 1 .. Cardinality(s) : o[i] = o[j] => i = j}

Range(q) == {q[i] : i \in 1 .. Len(q)}

RunInit ==
    /\ EnumeratorIdle
    /\ AdapterIdle
    /\ engines \in 1 .. MaxTasks
    /\ join_set = << >>
    /\ guard = 0
    /\ global_subdomains = {}
    /\ printed = << >>
    /\ run_pc = "spawn"
    /\ returned = {}

\* for ng in engines { join_set.spawn(async move { ... }) }: the task starts at
\* once, up to its enumerate(c).await.
Spawn ==
    /\ run_pc = "spawn"
    /\ Len(join_set) < engines
    /\ join_set' = Append(join_set, Task("enumerating", {}, 0))
    /\ UNCHANGED <<enumerator_vars, adapter_vars, scenario_vars, engines, guard, global_subdomains, printed, run_pc,
                   returned>>

\* The for loop is over: the runner calls join_all and awaits it.
AwaitJoinAll ==
    /\ run_pc = "spawn"
    /\ Len(join_set) = engines
    /\ run_pc' = "join"
    /\ UNCHANGED <<enumerator_vars, adapter_vars, scenario_vars, engines, join_set, guard, global_subdomains, printed,
                   returned>>

\* let found = e.enumerate(c).await
EnumerateReturns(i) ==
    /\ join_set[i].pc = "enumerating"
    /\ \E f \in SUBSET Hosts :
          /\ join_set' = [join_set EXCEPT ![i] = Task("returned", f, 0)]
          /\ returned' = returned \cup f
    /\ UNCHANGED <<enumerator_vars, adapter_vars, scenario_vars, engines, guard, global_subdomains, printed, run_pc>>

\* The engine panics inside enumerate: the task ends with a JoinError.
TaskPanics(i) ==
    /\ join_set[i].pc = "enumerating"
    /\ join_set' = [join_set EXCEPT ![i].pc = "panicked"]
    /\ UNCHANGED <<enumerator_vars, adapter_vars, scenario_vars, engines, guard, global_subdomains, printed, run_pc,
                   returned>>

\* Mutant: the lock is taken whether or not another task holds it.
LockUnguarded(i) ==
    /\ join_set[i].pc = "returned"
    /\ guard' = i
    /\ join_set' = [join_set EXCEPT ![i].pc = "locked"]
    /\ UNCHANGED <<enumerator_vars, adapter_vars, scenario_vars, engines, global_subdomains, printed, run_pc, returned>>

\* let mut guard = r.lock().unwrap(): blocks while another task holds the mutex.
Lock(i) ==
    /\ join_set[i].pc = "returned"
    /\ guard = 0
    /\ guard' = i
    /\ join_set' = [join_set EXCEPT ![i].pc = "locked"]
    /\ UNCHANGED <<enumerator_vars, adapter_vars, scenario_vars, engines, global_subdomains, printed, run_pc, returned>>

\* guard.extend(found.into_iter()); the guard is dropped, the task is complete.
ExtendAndUnlock(i) ==
    /\ join_set[i].pc = "locked"
    /\ global_subdomains' = global_subdomains \cup join_set[i].found
    /\ join_set' = [join_set EXCEPT ![i] = Task("finished", {}, @.writes + 1)]
    /\ guard' = 0
    /\ UNCHANGED <<enumerator_vars, adapter_vars, scenario_vars, engines, printed, run_pc, returned>>

\* Mutant: join_all returns as soon as one task is complete.
JoinAllReturnsOnFirst ==
    /\ run_pc = "join"
    /\ \E i \in TaskIds : join_set[i].pc = "finished"
    /\ run_pc' = "print"
    /\ UNCHANGED <<enumerator_vars, adapter_vars, scenario_vars, engines, join_set, guard, global_subdomains, printed,
                   returned>>

\* join_all().await returns: every task of the set is complete.
JoinAllReturns ==
    /\ run_pc = "join"
    /\ AllFinished
    /\ run_pc' = "print"
    /\ UNCHANGED <<enumerator_vars, adapter_vars, scenario_vars, engines, join_set, guard, global_subdomains, printed,
                   returned>>

\* join_all meets the JoinError of a panicked task: it resumes the panic in
\* the runner; the JoinSet is dropped, which aborts the tasks still awaiting
\* their enumerate (a task past it has no suspension point left).
JoinAllPanics ==
    /\ run_pc = "join"
    /\ \E i \in TaskIds : join_set[i].pc = "panicked"
    /\ run_pc' = "panicked"
    /\ join_set' = [i \in TaskIds |->
                      IF join_set[i].pc = "enumerating"
                      THEN Task("cancelled", {}, join_set[i].writes)
                      ELSE join_set[i]]
    /\ UNCHANGED <<enumerator_vars, adapter_vars, scenario_vars, engines, guard, global_subdomains, printed, returned>>

\* for sub in subdomains.lock().unwrap().iter() { println!(sub) }
PrintAll ==
    /\ run_pc = "print"
    /\ guard = 0
    /\ \E o \in Orders(global_subdomains) : printed' = o
    /\ run_pc' = "done"
    /\ UNCHANGED <<enumerator_vars, adapter_vars, scenario_vars, engines, join_set, guard, global_subdomains, returned>>

RunNext ==
    \/ Spawn
    \/ AwaitJoinAll
    \/ \E i \in TaskIds : EnumerateReturns(i)
    \/ \E i \in TaskIds : TaskPanics(i)
    \/ \E i \in TaskIds : Lock(i)
    \/ \E i \in TaskIds : ExtendAndUnlock(i)
    \/ JoinAllReturns
    \/ JoinAllPanics
    \/ PrintAll

RunSpec == RunInit /\ [][RunNext]_vars

(* ------------------------------ adapters -------------------------------- *)
(* Extract::extract and the query builders of the engines, on strings: a    *)
(* string is a tuple of symbols, a symbol being one character or, in a      *)
(* search-engine result page, one of the engine's literal delimiters.       *)

\* The characters of a string literal.
Chars(s) == [i \in 1 .. Len(s) |-> SubSeq(s, i, i)]

\* All strings over alphabet A of length at most n.
RECURSIVE Strings(_, _)
Strings(A, n) ==
    IF n = 0
    THEN {<< >>}
    ELSE LET shorter == Strings(A, n - 1)
         IN  shorter \cup {Append(s, c) : s \in {t \in shorter : Len(t) = n - 1}, c \in A}

\* str::ends_with
EndsWith(s, suffix) ==
    /\ Len(s) >= Len(suffix)
    /\ SubSeq(s, Len(s) - Len(suffix) + 1, Len(s)) = suffix

\* Position of the first c in s, 0 if there is none.
IndexOf(s, c) ==
    IF \E i \in 1 .. Len(s) : s[i] = c
    THEN CHOOSE i \in 1 .. Len(s) : s[i] = c /\ \A j \in 1 .. (i - 1) : s[j] # c
    ELSE 0

\* str::split(c), collected: the pieces of s between the occurrences of c.
RECURSIVE Split(_, _)
Split(s, c) ==
    LET k == IndexOf(s, c)
    IN  IF k = 0
        THEN <<s>>
        ELSE <<SubSeq(s, 1, k - 1)>> \o Split(SubSeq(s, k + 1, Len(s)), c)

\* Concatenation of a sequence of sequences.
RECURSIVE Flat(_)
Flat(ss) == IF ss = << >> THEN << >> ELSE Head(ss) \o Flat(Tail(ss))

Engines ==
    {"AlienVault", "Bing", "CrtSh", "DNSDumpster", "Google", "HackerTarget",
     "VirusTotal", "Yahoo"}

\* The engines whose extract is the one the Extract derive generates.
DeriveEngines == {"Bing", "DNSDumpster"}

RegexEngines == DeriveEngines \cup {"Google", "Yahoo"}

JsonEngines == {"AlienVault", "CrtSh", "VirusTotal"}

\* The engines that build their query from the hostnames found so far.
SearchEngines == {"Google", "Bing", "Yahoo"}

\* Target domains: a single label, and a label under a top-level label.
Domains == {Chars("x"), Chars("x.x")}

(* ---- regular expressions, as the regex crate matches them ---- *)

Lit(c) == [t |-> "set", cs |-> {c}, neg |-> FALSE]

\* [...] over the symbols cs
Class(cs) == [t |-> "set", cs |-> cs, neg |-> FALSE]

\* . : any symbol but the newline
AnyChar == [t |-> "set", cs |-> {"\n"}, neg |-> TRUE]

Cat(rs) == [t |-> "cat", rs |-> rs]

\* r* (greedy) or r*? (lazy)
Star(r, greedy) == [t |-> "star", r |-> r, greedy |-> greedy]

\* r?
Opt(r) == [t |-> "opt", r |-> r]

\* (?<subdomain>r)
Cap(r) == [t |-> "cap", r |-> r]

\* [[:alnum:]] and [[:alnum:]-], over the symbols used here
Alnum == Class({"a", "x"})

AlnumHyphen == Class({"a", "x", "-"})

\* One DNS label: [[:alnum:]](?:[[:alnum:]-]*[[:alnum:]])?
Label == Cat(<<Alnum, Opt(Cat(<<Star(AlnumHyphen, TRUE), Alnum>>))>>)

\* SUBDOMAIN_RE_STR: label(?:\.label)*
SUBDOMAIN_RE_STR == Cat(<<Label, Star(Cat(<<Lit("."), Label>>), TRUE)>>)

\* domain.replace(".", r"\.") spliced into the pattern: every character of
\* the domain stands for itself.
EscapedDomain(d) == Cat([i \in 1 .. Len(d) |-> Lit(d[i])])

\* (?<subdomain>.*?\.{domain})
LazyCapture(d) == Cap(Cat(<<Star(AnyChar, FALSE), Lit("."), EscapedDomain(d)>>))

\* (?<subdomain>{SUBDOMAIN_RE_STR}\.{domain})
LabelCapture(d) == Cap(Cat(<<SUBDOMAIN_RE_STR, Lit("."), EscapedDomain(d)>>))

\* The opening and closing delimiters of a result in the engine's page.
OpenTag(e) ==
    CASE e = "Bing" -> "<cite>https://"
      [] e = "DNSDumpster" -> "<td>"
      [] e = "Yahoo" -> "<span>"

CloseTag(e) ==
    CASE e = "Bing" -> "</cite>"
      [] e = "DNSDumpster" -> "</td>"
      [] e = "Yahoo" -> "</span>"
      [] e = "Google" -> " &#8250;"

\* The engine's pattern for domain d.
Pattern(e, d) ==
    CASE e = "Bing" ->
           Cat(<<Lit(OpenTag(e)), LazyCapture(d), Star(AnyChar, FALSE), Lit(CloseTag(e))>>)
      [] e = "DNSDumpster" ->
           Cat(<<Lit(OpenTag(e)), LazyCapture(d), Lit(CloseTag(e))>>)
      [] e = "Google" ->
           Cat(<<LabelCapture(d), Lit(CloseTag(e))>>)
      [] e = "Yahoo" ->
           Cat(<<Lit(OpenTag(e)), LabelCapture(d), Lit(CloseTag(e))>>)

NoCap == << >>

\* A way to match: where it ends and what the capture group spans, in offsets.
Way(end, cap) == [end |-> end, cap |-> cap]

\* The ways re matches s from offset i, most preferred first (leftmost-first:
\* a greedy repetition prefers more, a lazy one less, a sequence its first
\* element's preference before its second's).
RECURSIVE Matches(_, _, _)
Matches(re, s, i) ==
    CASE re.t = "set" ->
           IF i < Len(s) /\ ((s[i + 1] \in re.cs) # re.neg)
           THEN <<Way(i + 1, NoCap)>>
           ELSE << >>
      [] re.t = "cat" ->
           IF re.rs = << >>
           THEN <<Way(i, NoCap)>>
           ELSE LET first == Matches(Head(re.rs), s, i)
                IN  Flat([k \in 1 .. Len(first) |->
                            LET rest == Matches(Cat(Tail(re.rs)), s, first[k].end)
                            IN  [j \in 1 .. Len(rest) |->
                                   Way(rest[j].end,
                                       IF rest[j].cap # NoCap
                                       THEN rest[j].cap
                                       ELSE first[k].cap)]])
      [] re.t = "star" ->
           LET one == SelectSeq(Matches(re.r, s, i), LAMBDA m : m.end > i)
               more == Flat([k \in 1 .. Len(one) |-> Matches(re, s, one[k].end)])
           IN  IF re.greedy
               THEN more \o <<Way(i, NoCap)>>
               ELSE <<Way(i, NoCap)>> \o more
      [] re.t = "opt" -> Matches(re.r, s, i) \o <<Way(i, NoCap)>>
      [] re.t = "cap" ->
           LET inner == Matches(re.r, s, i)
           IN  [j \in 1 .. Len(inner) |-> Way(inner[j].end, <<i, inner[j].end>>)]

\* re matches nowhere in s.
NoMatch(re, s) == \A i \in 0 .. Len(s) : Matches(re, s, i) = << >>

\* Mutant: only the first match is captured.
RECURSIVE CapturesFirst(_, _, _)
CapturesFirst(re, s, pos) ==
    IF pos > Len(s)
    THEN {}
    ELSE LET ways == Matches(re, s, pos)
         IN  IF ways = << >>
             THEN CapturesFirst(re, s, pos + 1)
             ELSE {SubSeq(s, ways[1].cap[1] + 1, ways[1].cap[2])}

\* Regex::captures_iter(s) from offset pos, the capture group of every match
\* collected into a set: the leftmost match, its preferred way, then on from its end.
RECURSIVE Captures(_, _, _)
Captures(re, s, pos) ==
    IF pos > Len(s)
    THEN {}
    ELSE LET ways == Matches(re, s, pos)
         IN  IF ways = << >>
             THEN Captures(re, s, pos + 1)
             ELSE {SubSeq(s, ways[1].cap[1] + 1, ways[1].cap[2])}
                    \cup Captures(re, s, IF ways[1].end > pos THEN ways[1].end ELSE pos + 1)

(* ---- response bodies ---- *)

\* The symbols of the pages of a text engine: its delimiters, what hostnames
\* are made of, and the character its pattern or its parsing treats specially.
Alphabet(e) ==
    CASE e \in DeriveEngines -> {OpenTag(e), CloseTag(e), ".", "x", "\n"}
      [] e = "Yahoo" -> {OpenTag(e), CloseTag(e), ".", "x"}
      [] e = "Google" -> {CloseTag(e), "-", ".", "x"}
      [] e = "HackerTarget" -> {",", ".", "x", "\n"}

\* Hostnames a record can carry, seen from domain d: d, a subdomain of d,
\* d with a dot in front, a name that ends with d without the dot, and
\* names that have nothing to do with d.
ItemPool(d) ==
    {d, Chars("a.") \o d, Chars(".") \o d, Chars("a") \o d, Chars("a"), d \o Chars(".a"),
     << >>}

\* The name_value strings of crt.sh: hostnames joined by newlines.
NameValues(d) ==
    ItemPool(d) \cup {g \o Chars("\n") \o h : g, h \in {d, Chars("a.") \o d, Chars("a")}}

\* Sequences of at most n elements of S.
RECURSIVE SeqsUpTo(_, _)
SeqsUpTo(S, n) ==
    IF n = 0
    THEN {<< >>}
    ELSE LET shorter == SeqsUpTo(S, n - 1)
         IN  shorter \cup {Append(q, x) : q \in {r \in shorter : Len(r) = n - 1}, x \in S}

\* A non-empty body that is some JSON or other.
Opaque == <<"{...}">>

\* The bodies an engine is given: every short page of a text engine; for a
\* JSON engine the empty body, a body that does not deserialize, and the
\* documents of a few records.
Responses(e, d) ==
    CASE e \in RegexEngines \cup {"HackerTarget"} ->
           {Response(t, NoDoc) : t \in Strings(Alphabet(e), MaxBodyLen)}
      [] e = "AlienVault" ->
           {EmptyResponse, Response(Opaque, NoDoc)}
             \cup {Response(Opaque, Doc(TRUE, q, c, "null")) :
                     q \in SeqsUpTo(ItemPool(d), MaxItems), c \in {-1, 0, MaxItems}}
      [] e = "CrtSh" ->
           {EmptyResponse, Response(Opaque, NoDoc)}
             \cup {Response(Opaque, Doc(TRUE, q, 0, "null")) :
                     q \in SeqsUpTo(NameValues(d), MaxItems)}
      [] e = "VirusTotal" ->
           {EmptyResponse, Response(Opaque, NoDoc)}
             \cup {Response(Opaque, Doc(TRUE, q, Len(q), c)) :
                     q \in SeqsUpTo(ItemPool(d), MaxItems), c \in {"null", "cursor"}}

\* The hostnames already found that a query is built from: a., a.a., ... under d.
RECURSIVE Sub(_, _)
Sub(k, d) == IF k = 0 THEN d ELSE Chars("a.") \o Sub(k - 1, d)

KnownHosts(d) == {Sub(k, d) : k \in 1 .. MaxKnown}

(* ---- extract ---- *)

\* count as usize, handed to HashSet::with_capacity: a negative count becomes
\* a capacity of 2^63 or more, which with_capacity answers with a panic.
CapacityOverflow(count) == count < 0

\* AlienVault::extract: from_str (with From<PassiveDns>), unwrap_or_default,
\* retain(ends_with(domain)).
AlienVaultExtract(d, doc) ==
    IF ~doc.ok
    THEN Extracted({})
    ELSE IF CapacityOverflow(doc.count)
         THEN ExtractPanicked
         ELSE Extracted({h \in Range(doc.items) : EndsWith(h, d)})

\* Mutant: CrtSh takes every name_value as one hostname.
CrtShNoSplit(doc) ==
    IF ~doc.ok
    THEN Extracted({})
    ELSE Extracted(Range(doc.items))

\* CrtSh::extract: from_str (with From<Vec<Item>>: every name_value split on
\* newlines), unwrap_or_default.
CrtShExtract(doc) ==
    IF ~doc.ok
    THEN Extracted({})
    ELSE Extracted(UNION {Range(Split(doc.items[i], "\n")) : i \in 1 .. Len(doc.items)})

\* VirusTotal::extract, the set returned.
VirusTotalExtract(doc) ==
    IF ~doc.ok
    THEN Extracted({})
    ELSE Extracted(Range(doc.items))

\* VirusTotal::extract, the meta field afterwards.
VirusTotalMeta(m, doc) == IF doc.ok THEN SomeMeta(doc.cursor) ELSE m

\* HackerTarget::extract: split("\n"), filter_map(split_once(',')), the part
\* before the comma.
HackerTargetExtract(text) ==
    LET lines == Split(text, "\n")
        withComma == {i \in 1 .. Len(lines) : IndexOf(lines[i], ",") # 0}
    IN  Extracted({SubSeq(lines[i], 1, IndexOf(lines[i], ",") - 1) : i \in withComma})

\* The extract of the regex engines: captures_iter over the engine's pattern
\* for the domain, the subdomain group of every match.
RegexExtract(e, d, text) == Extracted(Captures(Pattern(e, d), text, 0))

\* Extract::extract of engine e with domain d on body b.
ExtractOf(e, d, b) ==
    CASE e = "AlienVault" -> AlienVaultExtract(d, b.doc)
      [] e = "CrtSh" -> CrtShExtract(b.doc)
      [] e = "VirusTotal" -> VirusTotalExtract(b.doc)
      [] e = "HackerTarget" -> HackerTargetExtract(b.text)
      [] e \in RegexEngines -> RegexExtract(e, d, b.text)

(* ---- queries ---- *)

\* The fixed head of the engine's query.
QueryPrefix(e, d) ==
    CASE e = "Google" -> Chars("site:") \o d \o Chars(" -www.") \o d
      [] e = "Bing" -> Chars("domain:") \o d \o Chars(" -www.") \o d
      [] e = "Yahoo" -> Chars("site:") \o d \o Chars(" -domain:www.") \o d

\* What the fold appends for the hostname h.
Exclusion(e, h) ==
    CASE e \in {"Google", "Bing"} -> Chars(" -") \o h
      [] e = "Yahoo" -> Chars(" -domain:") \o h

\* Mutant: only the first hostname iterated is excluded.
FoundFirstOnly(e, order) ==
    IF order = << >> THEN << >> ELSE Exclusion(e, order[1])

\* subdomains.iter().fold(String::new(), |acc, d| format!("{acc} -{d}")), the
\* set iterated in the given order.
RECURSIVE Found(_, _)
Found(e, order) ==
    IF order = << >>
    THEN << >>
    ELSE Exclusion(e, Head(order)) \o Found(e, Tail(order))

\* next_query / generate_query of a search engine.
QueryOf(e, d, order) == QueryPrefix(e, d) \o Found(e, order)

(* ---- one call of an adapter ---- *)

AdapterInit ==
    /\ EnumeratorIdle
    /\ RunnerIdle
    /\ ScenarioIdle
    /\ engine \in Engines
    /\ domain \in Domains
    /\ meta = NoMeta
    /\ extracted = Extracted({})
    /\ query = << >>
    /\ \/ /\ adapter_pc = "extract"
          /\ body \in Responses(engine, domain)
          /\ known = {}
       \/ /\ adapter_pc = "next_query"
          /\ engine \in SearchEngines
          /\ body = EmptyResponse
          /\ known \in SUBSET KnownHosts(domain)

\* engine.extract(&body)
CallExtract ==
    /\ adapter_pc = "extract"
    /\ extracted' = ExtractOf(engine, domain, body)
    /\ meta' = IF engine = "VirusTotal" THEN VirusTotalMeta(meta, body.doc) ELSE meta
    /\ adapter_pc' = "extracted"
    /\ UNCHANGED <<enumerator_vars, runner_vars, scenario_vars, engine, domain, body, known,
                   query>>

\* engine.next_query(&subdomains), the set iterated in some order.
CallNextQuery ==
    /\ adapter_pc = "next_query"
    /\ \E order \in Orders(known) : query' = QueryOf(engine, domain, order)
    /\ adapter_pc' = "queried"
    /\ UNCHANGED <<enumerator_vars, runner_vars, scenario_vars, engine, domain, meta, body,
                   known, extracted>>

AdapterNext ==
    \/ CallExtract
    \/ CallNextQuery

AdapterSpec == AdapterInit /\ [][AdapterNext]_vars

(* ---- two pages glued together ---- *)

\* Each of the two glued pages has at most MaxHalf pieces.
MaxHalf == MaxBodyLen \div 2

\* The pieces the glued pages are cut from: the engine's delimiters and two
\* hostnames under d.
Pieces(e, d) ==
    IF e = "Google"
    THEN {<<CloseTag(e)>>, Chars("x.") \o d, Chars("a.") \o d}
    ELSE {<<OpenTag(e)>>, <<CloseTag(e)>>, Chars("x.") \o d, Chars("a.") \o d}

Halves(e, d) == {Flat(q) : q \in SeqsUpTo(Pieces(e, d), MaxHalf)}

\* A regex adapter and two bodies a and b; extract is about to be called on
\* a, on b and on a ++ b.
ConcatInit ==
    /\ EnumeratorIdle
    /\ RunnerIdle
    /\ engine \in RegexEngines
    /\ domain \in Domains
    /\ meta = NoMeta
    /\ known = {}
    /\ query = << >>
    /\ extracted = Extracted({})
    /\ halves \in Halves(engine, domain) \X Halves(engine, domain)
    /\ body = Response(halves[1] \o halves[2], NoDoc)
    /\ extracted_halves = <<Extracted({}), Extracted({})>>
    /\ BlocksIdle
    /\ DumpsterIdle
    /\ CursorIdle
    /\ RegexIdle
    /\ OnceIdle
    /\ adapter_pc = "extract"

\* engine.extract(a), engine.extract(b), engine.extract(a ++ b)
ExtractHalves ==
    /\ adapter_pc = "extract"
    /\ extracted_halves' = <<ExtractOf(engine, domain, Response(halves[1], NoDoc)),
                             ExtractOf(engine, domain, Response(halves[2], NoDoc))>>
    /\ extracted' = ExtractOf(engine, domain, body)
    /\ adapter_pc' = "extracted"
    /\ UNCHANGED <<enumerator_vars, runner_vars, engine, domain, meta, body, known, query,
                   halves, blocks, once, dumpster_vars, cursor_vars, regex_vars>>

ConcatNext == ExtractHalves

ConcatSpec == ConcatInit /\ [][ConcatNext]_vars

(* ---- a page of result blocks ---- *)

\* What stands in front of the domain in the hostnames of the blocks: a
\* label, a hyphenated label, two labels, and labels that repeat the domain.
HostPrefixes(d) == {Chars("a"), Chars("a-a"), Chars("a.a"), Chars("x"), Chars("a.") \o d}

\* The result block of the engine for the hostname h.
Block(e, h) ==
    IF e = "Google"
    THEN h \o <<CloseTag(e)>>
    ELSE <<OpenTag(e)>> \o h \o <<CloseTag(e)>>

\* A page of one block per line.
RECURSIVE PageOf(_, _)
PageOf(e, hs) ==
    IF hs = << >>
    THEN << >>
    ELSE Block(e, Head(hs)) \o <<"\n">> \o PageOf(e, Tail(hs))

\* A regex adapter and a page of result blocks for hostnames under its domain.
BlocksInit ==
    /\ EnumeratorIdle
    /\ RunnerIdle
    /\ engine \in RegexEngines
    /\ domain \in Domains
    /\ meta = NoMeta
    /\ known = {}
    /\ query = << >>
    /\ extracted = Extracted({})
    /\ ConcatIdle
    /\ DumpsterIdle
    /\ CursorIdle
    /\ RegexIdle
    /\ OnceIdle
    /\ blocks \in SeqsUpTo({x \o <<".">> \o domain : x \in HostPrefixes(domain)}, MaxItems)
    /\ body = Response(PageOf(engine, blocks), NoDoc)
    /\ adapter_pc = "extract"

BlocksNext == CallExtract

BlocksSpec == BlocksInit /\ [][BlocksNext]_vars

(* ---- DNSDumpster::search under the enumeration loop ---- *)
(* The loop of enumerate with the search of DNSDumpster in the place of    *)
(* its request: a preflight GET that scrapes the authorization token, then *)
(* the POST that carries it.                                               *)

\* A token scraped from the preflight page.
ScrapedToken == "token"

\* .unwrap_or_default() of the token: the empty string when none was scraped.
TokenOrDefault(scraped) == IF scraped THEN ScrapedToken ELSE ""

Get == <<"GET">>

Post(token) == <<"POST", token>>

\* Engine DNSDumpster (max_rounds 1) at the start of enumerate.
DumpsterInit ==
    /\ MAX_ROUNDS = 1
    /\ InitLocals
    /\ RunnerIdle
    /\ AdapterIdle

\* The Err arm of the request in enumerate: sleep, retries += 1,
\* backoff_secs *= 2, continue.
FailurePath ==
    /\ requests' = requests + 1
    /\ failures' = failures + 1
    /\ sleeps' = Append(sleeps, backoff_secs)
    /\ retries' = (retries + 1) % U8
    /\ backoff_secs' = (backoff_secs * 2) % U8
    /\ iterations' = iterations + 1
    /\ pc' = "head"
    /\ UNCHANGED <<MAX_ROUNDS, progress_rounds, rounds, page, found, subdomains, stop, ret, body_failures>>

\* Mutant: when the preflight fails the POST is sent all the same, without a token.
PreflightFailsStillPosts ==
    /\ pc = "search"
    /\ authorization = NotSearching
    /\ wire' = wire \o <<Get, Post("")>>
    /\ FailurePath
    /\ UNCHANGED <<runner_vars, adapter_vars, concat_vars, blocks, once, cursor_vars, regex_vars,
                   authorization>>

\* init: the GET is not answered, or its body cannot be read; the ? operators
\* make search return the error at once.
PreflightFails ==
    /\ pc = "search"
    /\ authorization = NotSearching
    /\ wire' = Append(wire, Get)
    /\ FailurePath
    /\ UNCHANGED <<runner_vars, adapter_vars, concat_vars, blocks, once, cursor_vars, regex_vars,
                   authorization>>

\* init returns Ok(token): the preflight page was read and the token regex
\* found a token in it or did not.
PreflightOk ==
    /\ pc = "search"
    /\ authorization = NotSearching
    /\ wire' = Append(wire, Get)
    /\ \E scraped \in BOOLEAN : authorization' = TokenOrDefault(scraped)
    /\ UNCHANGED <<enumerator_vars, runner_vars, adapter_vars, concat_vars, blocks, once, cursor_vars,
                   regex_vars>>

\* The POST is answered with a success status: the Ok arm of the request.
PostOk ==
    /\ pc = "search"
    /\ authorization = ScrapedToken
    /\ wire' = Append(wire, Post(authorization))
    /\ authorization' = NotSearching
    /\ requests' = requests + 1
    /\ pc' = "body"
    /\ UNCHANGED <<MAX_ROUNDS, progress_rounds, loop_state, stop, ret, sleeps, failures, body_failures,
                   iterations>>
    /\ UNCHANGED <<runner_vars, adapter_vars, concat_vars, blocks, once, cursor_vars, regex_vars>>

\* The POST is not answered or is answered with an error status, which
\* error_for_status turns into an error; the remote answers a POST without
\* a token with 401.
PostFails ==
    /\ pc = "search"
    /\ authorization # NotSearching
    /\ wire' = Append(wire, Post(authorization))
    /\ authorization' = NotSearching
    /\ FailurePath
    /\ UNCHANGED <<runner_vars, adapter_vars, concat_vars, blocks, once, cursor_vars, regex_vars>>

DumpsterNext ==
    \/ PreCheckBreak
    \/ PreCheckPass
    \/ NextQuerySome
    \/ PreflightFails
    \/ PreflightOk
    \/ PostOk
    \/ PostFails
    \/ BodyFailed
    \/ ExtractAndDecide
    \/ DelayAndCount

DumpsterSpec == DumpsterInit /\ [][DumpsterNext]_vars

(* ---- VirusTotal under the enumeration loop ---- *)
(* The loop of enumerate driving the VirusTotal adapter: its query follows *)
(* the cursor of the meta object that extract stored, and its stop signal  *)
(* ends the stream.                                                        *)

\* SETTINGS.max_pages of VirusTotal.
VT_MAX_PAGES == 10

\* Cursors the server hands out.
Cursors == {"c1", "c2"}

\* What a VirusTotal body deserializes to: not a VirusTotalResponse, or the
\* ids of data and the cursor of meta.
VTDocs ==
    {NoDoc} \cup
    {Doc(TRUE, items, Len(items), c) : items \in SeqsUpTo(1 .. 2, 1), c \in Cursors \cup {"null"}}

\* format!("{base_url}/{domain}/relationships/subdomains")
BaseQuery(d) == <<"https://www.virustotal.com/ui/domains", "/">> \o d
                    \o <<"/relationships/subdomains">>

\* Mutant: the query never carries a cursor.
GenerateQueryBaseOnly(d, m) == BaseQuery(d)

\* VirusTotal::generate_query
GenerateQuery(d, m) ==
    IF m.some /\ m.cursor # "null"
    THEN BaseQuery(d) \o <<"?cursor=", m.cursor>>
    ELSE BaseQuery(d)

\* VirusTotal::stop
Stop(p, m) ==
    IF p >= VT_MAX_PAGES
    THEN TRUE
    ELSE IF m.some THEN m.cursor = "null" ELSE FALSE

\* VirusTotal::new under enumerate.
CursorInit ==
    /\ MAX_ROUNDS \in 1 .. MaxRoundsCap
    /\ InitLocals
    /\ RunnerIdle
    /\ ConcatIdle
    /\ BlocksIdle
    /\ DumpsterIdle
    /\ CursorIdle
    /\ RegexIdle
    /\ OnceIdle
    /\ engine = "VirusTotal"
    /\ domain \in Domains
    /\ meta = NoMeta
    /\ body = EmptyResponse
    /\ known = {}
    /\ extracted = Extracted({})
    /\ query = << >>
    /\ adapter_pc = "idle"

\* next_query of the adapter is None when stop() holds: "completed" with
\* stop = true, break, return subdomains.
StopSignalled ==
    /\ pc = "query"
    /\ Stop(vt_page, meta)
    /\ pc' = "done"
    /\ stop' = TRUE
    /\ ret' = Returned(subdomains)
    /\ UNCHANGED <<elsewhere, MAX_ROUNDS, progress_rounds, loop_state, history>>

\* next_query of the adapter is Some(generate_query(..)) otherwise.
QueryGenerated ==
    /\ pc = "query"
    /\ ~Stop(vt_page, meta)
    /\ query' = GenerateQuery(domain, meta)
    /\ pc' = "search"
    /\ UNCHANGED <<MAX_ROUNDS, progress_rounds, loop_state, stop, ret, history>>
    /\ UNCHANGED <<runner_vars, scenario_vars, engine, domain, meta, body, known, extracted,
                   adapter_pc>>

\* VirusTotal::search is answered with a success status: self.page += 1.
PageFetched ==
    /\ pc = "search"
    /\ requests' = requests + 1
    /\ vt_page' = vt_page + 1
    /\ pc' = "body"
    /\ UNCHANGED <<MAX_ROUNDS, progress_rounds, loop_state, stop, ret, sleeps, failures, body_failures,
                   iterations>>
    /\ UNCHANGED <<runner_vars, adapter_vars, concat_vars, blocks, once, dumpster_vars, regex_vars,
                   last_cursor, last_malformed>>

\* resp.text() is Ok: VirusTotal::extract stores the meta of a body that
\* deserializes; union into subdomains, progress decision.
ExtractPage ==
    /\ pc = "body"
    /\ \E doc \in VTDocs :
          /\ body' = Response(<< >>, doc)
          /\ extracted' = VirusTotalExtract(doc)
          /\ meta' = VirusTotalMeta(meta, doc)
          /\ last_cursor' = IF doc.ok THEN doc.cursor ELSE last_cursor
          /\ last_malformed' = ~doc.ok
    /\ subdomains' = subdomains \cup extracted'.hosts
    /\ LET d == Decide(found, retries, page, subdomains')
       IN  /\ found' = d[1]
           /\ retries' = d[2]
           /\ page' = d[3]
    /\ progress_rounds' = progress_rounds + (IF found # Cardinality(subdomains') THEN 1 ELSE 0)
    /\ pc' = "delay"
    /\ UNCHANGED <<MAX_ROUNDS, rounds, backoff_secs, stop, ret, history>>
    /\ UNCHANGED <<runner_vars, concat_vars, blocks, once, dumpster_vars, regex_vars, vt_page,
                   engine, domain, known, query, adapter_pc>>

CursorNext ==
    \/ PreCheckBreak
    \/ PreCheckPass
    \/ StopSignalled
    \/ QueryGenerated
    \/ PageFetched
    \/ SearchFailed
    \/ BodyFailed
    \/ ExtractPage
    \/ DelayAndCount

CursorSpec == CursorInit /\ [][CursorNext]_vars

(* ---- two instances of one regex adapter ---- *)
(* Two instances of the same adapter type, created with domains of their   *)
(* own, each running extract on the same page from a thread of its own:    *)
(* the regex is a static OnceLock of the type, filled by get_or_init.      *)

Instances == 1 .. 2

\* Pages of result blocks for hostnames under the target domains.
SharedPages(e) ==
    {PageOf(e, hs) : hs \in SeqsUpTo({Chars("a.") \o d : d \in Domains}, MaxItems)}

RegexInit ==
    /\ EnumeratorIdle
    /\ RunnerIdle
    /\ ConcatIdle
    /\ BlocksIdle
    /\ DumpsterIdle
    /\ CursorIdle
    /\ OnceIdle
    /\ engine \in RegexEngines
    /\ domain = << >>
    /\ meta = NoMeta
    /\ known = {}
    /\ query = << >>
    /\ extracted = Extracted({})
    /\ adapter_pc = "idle"
    /\ \E page_text \in SharedPages(engine) : body = Response(page_text, NoDoc)
    /\ instances \in [Instances -> Domains]
    /\ RE = Uninit
    /\ callers = [i \in Instances |-> "call"]
    /\ outputs = [i \in Instances |-> Extracted({})]
    /\ inits = 0

\* get_or_init finds the cell empty and no initializer running: the caller
\* runs the closure.
BeginInit(i) ==
    /\ callers[i] = "call"
    /\ RE = Uninit
    /\ \A j \in Instances : callers[j] # "init"
    /\ callers' = [callers EXCEPT ![i] = "init"]
    /\ UNCHANGED <<enumerator_vars, runner_vars, adapter_vars, concat_vars, blocks, once,
                   dumpster_vars, cursor_vars, instances, RE, outputs, inits>>

\* The closure of get_or_init: the pattern with the domain of the instance
\* that runs it, compiled and stored.
FinishInit(i) ==
    /\ callers[i] = "init"
    /\ RE' = <<Pattern(engine, instances[i])>>
    /\ inits' = inits + 1
    /\ callers' = [callers EXCEPT ![i] = "scan"]
    /\ UNCHANGED <<enumerator_vars, runner_vars, adapter_vars, concat_vars, blocks, once,
                   dumpster_vars, cursor_vars, instances, outputs>>

\* get_or_init finds the cell filled: the caller gets the stored regex.
GetInitialized(i) ==
    /\ callers[i] = "call"
    /\ RE # Uninit
    /\ callers' = [callers EXCEPT ![i] = "scan"]
    /\ UNCHANGED <<enumerator_vars, runner_vars, adapter_vars, concat_vars, blocks, once,
                   dumpster_vars, cursor_vars, instances, RE, outputs, inits>>

\* re.captures_iter(input), the subdomain group of every match.
Scan(i) ==
    /\ callers[i] = "scan"
    /\ outputs' = [outputs EXCEPT ![i] = Extracted(Captures(RE[1], body.text, 0))]
    /\ callers' = [callers EXCEPT ![i] = "done"]
    /\ UNCHANGED <<enumerator_vars, runner_vars, adapter_vars, concat_vars, blocks, once,
                   dumpster_vars, cursor_vars, instances, RE, inits>>

RegexNext ==
    \/ \E i \in Instances : BeginInit(i)
    \/ \E i \in Instances : FinishInit(i)
    \/ \E i \in Instances : GetInitialized(i)
    \/ \E i \in Instances : Scan(i)

RegexSpec == RegexInit /\ [][RegexNext]_vars

(* ---- the single-shot adapters under the enumeration loop ---- *)
(* AlienVault, CrtSh, HackerTarget and DNSDumpster: one round allowed by   *)
(* their settings; CrtSh also raises its once flag when a request is       *)
(* answered with a success status, and stops on it.                        *)

SingleShots == {"AlienVault", "CrtSh", "HackerTarget", "DNSDumpster"}

\* The settings of the four adapters allow one round.
SingleShotInit ==
    /\ MAX_ROUNDS = 1
    /\ InitLocals
    /\ RunnerIdle
    /\ ScenarioIdle
    /\ engine \in SingleShots
    /\ domain \in Domains
    /\ meta = NoMeta
    /\ body = EmptyResponse
    /\ known = {}
    /\ extracted = Extracted({})
    /\ query = << >>
    /\ adapter_pc = "idle"

\* CrtSh::stop; the other three keep the default of the trait.
OnceStop(e, o) == IF e = "CrtSh" THEN o ELSE FALSE

\* next_query of the adapter is None when stop() holds: "completed" with
\* stop = true, break, return subdomains.
StoppedAfterOnce ==
    /\ pc = "query"
    /\ OnceStop(engine, once)
    /\ pc' = "done"
    /\ stop' = TRUE
    /\ ret' = Returned(subdomains)
    /\ UNCHANGED <<elsewhere, MAX_ROUNDS, progress_rounds, loop_state, history>>

\* The query of a single-shot adapter: AlienVault's next_query formats the
\* full URL, generate_query of the other three is the bare domain.
ShotQuery(e, d) ==
    IF e = "AlienVault"
    THEN <<"https://otx.alienvault.com/api/v1/indicators/domain", "/">> \o d
           \o <<"/passive_dns">>
    ELSE d

\* next_query of the adapter is Some(query) otherwise.
DomainQueried ==
    /\ pc = "query"
    /\ ~OnceStop(engine, once)
    /\ query' = ShotQuery(engine, domain)
    /\ pc' = "search"
    /\ UNCHANGED <<MAX_ROUNDS, progress_rounds, loop_state, stop, ret, history>>
    /\ UNCHANGED <<runner_vars, scenario_vars, engine, domain, meta, body, known, extracted,
                   adapter_pc>>

\* search is answered with a success status; CrtSh::search sets once.
ShotFetched ==
    /\ pc = "search"
    /\ requests' = requests + 1
    /\ once' = IF engine = "CrtSh" THEN TRUE ELSE once
    /\ pc' = "body"
    /\ UNCHANGED <<MAX_ROUNDS, progress_rounds, loop_state, stop, ret, sleeps, failures,
                   body_failures, iterations>>
    /\ UNCHANGED <<runner_vars, adapter_vars, concat_vars, blocks, dumpster_vars, cursor_vars,
                   regex_vars>>

SingleShotNext ==
    \/ PreCheckBreak
    \/ PreCheckPass
    \/ StoppedAfterOnce
    \/ DomainQueried
    \/ ShotFetched
    \/ SearchFailed
    \/ BodyFailed
    \/ ExtractAndDecide
    \/ DelayAndCount

SingleShotSpec == SingleShotInit /\ [][SingleShotNext]_vars

(* ------------------------------ claims --------------------------------- *)

Max(a, b) == IF a >= b THEN a ELSE b

RECURSIVE Log2(_)
Log2(n) == IF n <= 1 THEN 0 ELSE 1 + Log2(n \div 2)

\* The pre-check condition, as the specification words it.
CapReached == rounds >= MAX_ROUNDS \/ retries >= MAX_RETRIES \/ backoff_secs >= MAX_BACKOFF

\* The step reads a body and extracts from it (the step of a successful round).
ExtractStep == pc = "body" /\ pc' = "delay"

\* The step is the extract of a round that grows the accumulator.
ProgressStep == ExtractStep /\ subdomains' # subdomains

\* Every search of the run so far has failed, and the adapter never ended the stream.
EverySearchFailed == requests = failures /\ ~stop

\* C1: whatever the source does, enumerate eventually leaves its loop and
\* returns the accumulated set; it never loops forever and never returns
\* anything but the set.
C1_EventuallyReturnsS == <>(pc = "done" /\ ret = Returned(subdomains))

C1_Witness ==
    /\ pc = "done"
    /\ ret = Returned(subdomains)
    /\ subdomains # {}
    /\ failures > 0
    /\ body_failures > 0
    /\ page > 0

\* C2 (as claimed): the loop body is passed at most
\* max_rounds + MAX_RETRIES + log2(MAX_BACKOFF) times.
C2_Original == iterations <= MAX_ROUNDS + MAX_RETRIES + Log2(MAX_BACKOFF)

\* C2 (amended): the loop body is passed at most 3 * max_rounds + MAX_RETRIES - 3
\* times: every progress round gives two retries back.
C2_IterationBound == iterations <= 3 * MAX_ROUNDS + MAX_RETRIES - 3

C2_Witness == pc = "done" /\ MAX_ROUNDS > 0 /\ iterations = 3 * MAX_ROUNDS + MAX_RETRIES - 3

\* C3: at the loop head, a reached cap (rounds, retries or backoff) ends the run
\* returning the set, and next_query and search are never reached with a cap reached.
C3_PreCheck ==
    [][ /\ (pc = "head" /\ CapReached) =>
              (pc' = "done" /\ ret' = Returned(subdomains) /\ UNCHANGED loop_state)
        /\ (pc' \in {"query", "search"}) => ~CapReached' ]_vars

C3_Witness ==
    /\ pc = "done"
    /\ ~stop
    /\ backoff_secs >= MAX_BACKOFF
    /\ rounds < MAX_ROUNDS
    /\ retries < MAX_RETRIES

\* C4: when next_query returns None the run ends in that iteration with the
\* current set; the loop state is untouched and no search follows.
C4_NoneEndsRun ==
    /\ [][ (pc = "query" /\ stop') =>
              /\ pc' = "done"
              /\ ret' = Returned(subdomains)
              /\ UNCHANGED <<loop_state, requests>> ]_vars
    /\ [](stop => pc = "done" /\ ret = Returned(subdomains))
    /\ [][ stop => requests' = requests ]_vars

C4_Witness == stop /\ pc = "done" /\ requests > 0 /\ subdomains # {}

\* C5: retries is never negative; only a progress round lowers it, to
\* max(retries - 2, 0); every other step keeps it or adds exactly 1.
C5_Retries ==
    /\ [](retries >= 0)
    /\ [][ /\ (retries' < retries) => ProgressStep
           /\ ProgressStep => retries' = Max(retries - 2, 0)
           /\ ~ProgressStep => retries' \in {retries, retries + 1} ]_vars

\* One failed body read, then a progress round that saturates retries at 0.
C5_Witness ==
    /\ pc = "delay"
    /\ rounds = 0
    /\ found > 0
    /\ body_failures = 1
    /\ failures = 0
    /\ retries = 0

\* C6: backoff_secs is a power of two between 1 and 16; it starts at 1 and
\* changes only by doubling on a failed search.
C6_Backoff ==
    /\ [](/\ backoff_secs \in {2 ^ k : k \in 0 .. Log2(MAX_BACKOFF)}
          /\ backoff_secs = 2 ^ failures)
    /\ [][ backoff_secs' # backoff_secs =>
              /\ pc = "search"
              /\ pc' = "head"
              /\ failures' = failures + 1
              /\ backoff_secs' = 2 * backoff_secs ]_vars

C6_Witness == backoff_secs = MAX_BACKOFF /\ rounds > 0 /\ found > 0

\* C7: the accumulator only grows, and a union with an extract result it
\* already contains leaves it unchanged.
C7_Monotone ==
    /\ [][ /\ subdomains \subseteq subdomains'
           /\ Cardinality(subdomains') >= Cardinality(subdomains) ]_vars
    /\ [](\A b \in Bodies :
             Extract(b) \subseteq subdomains => Extend(subdomains, b) = subdomains)

\* A progress round that added two hostnames, then a round that added nothing.
C7_Witness ==
    /\ pc = "delay"
    /\ Cardinality(subdomains) = 2
    /\ found = 2
    /\ rounds = 1
    /\ page = 1
    /\ retries = 1
    /\ failures = 0
    /\ body_failures = 0

\* C8: page starts at 0 and changes only by +1, in the extract step of a
\* round that added nothing to the accumulator.
C8_Page ==
    /\ page = 0
    /\ [][ /\ page' # page =>
                 (ExtractStep /\ subdomains' = subdomains /\ page' = page + 1)
           /\ (ExtractStep /\ subdomains' = subdomains) => page' = page + 1 ]_vars

C8_Witness == page > 1 /\ found > 0 /\ failures > 0 /\ body_failures > 0

\* C9 (as claimed): rounds counts every completed iteration, failed or not,
\* and never exceeds max_rounds.
C9_Original == (pc \in {"head", "done"} => rounds = iterations) /\ rounds <= MAX_ROUNDS

\* C9 (amended): rounds counts the completed iterations whose search and body
\* read both succeeded, and never exceeds max_rounds.
C9_Rounds ==
    /\ pc \in {"head", "done"} => rounds = iterations - failures - body_failures
    /\ rounds <= MAX_ROUNDS

C9_Witness ==
    /\ pc = "head"
    /\ rounds = MAX_ROUNDS
    /\ rounds > 1
    /\ failures > 0
    /\ body_failures > 0

\* C10 (as claimed): with every search failing, the backoff cap is reached on
\* the 5th failure.
C10_Original == (EverySearchFailed /\ backoff_secs >= MAX_BACKOFF) => failures = 5

\* C10 (amended): with every search failing, backoff_secs runs 1, 2, 4, 8, 16,
\* the cap is reached on the 4th failure, and the run returns the empty set.
C10_AlwaysFailing ==
    EverySearchFailed =>
        /\ backoff_secs = 2 ^ failures
        /\ retries = failures
        /\ failures <= Log2(MAX_BACKOFF)
        /\ sleeps = [i \in 1 .. failures |-> 2 ^ (i - 1)]
        /\ backoff_secs >= MAX_BACKOFF <=> failures = Log2(MAX_BACKOFF)
        /\ subdomains = {}
        /\ (pc = "done" /\ MAX_ROUNDS > 0) =>
              (failures = Log2(MAX_BACKOFF) /\ ret = Returned({}))

C10_Witness ==
    /\ EverySearchFailed
    /\ pc = "done"
    /\ failures = 4
    /\ backoff_secs = 16
    /\ sleeps = <<1, 2, 4, 8>>
    /\ ret = Returned({})

\* C11 (as claimed): with a source that makes progress in every odd round and
\* none in every even round, retries is 0 in every state of the run.
C11_Original == retries = 0

\* C11 (amended): with that source retries never exceeds 1: an even round
\* raises it to 1 and the next odd round takes it back to 0; and the run ends
\* only because rounds reached max_rounds, never on the retry or backoff cap.
C11_Alternating ==
    /\ retries <= 1
    /\ pc \in {"head", "query", "search", "body"}
          => retries = (IF rounds > 0 /\ rounds % 2 = 0 THEN 1 ELSE 0)
    /\ pc = "done"
          => /\ rounds = MAX_ROUNDS
             /\ retries < MAX_RETRIES
             /\ backoff_secs < MAX_BACKOFF

C11_Witness ==
    /\ pc = "done"
    /\ MAX_ROUNDS >= 4
    /\ rounds = MAX_ROUNDS
    /\ retries = 1
    /\ page = MAX_ROUNDS \div 2
    /\ Cardinality(subdomains) = MAX_ROUNDS \div 2

\* C12 (as claimed): a run whose every successful round makes progress is
\* never ended by failed requests before rounds reaches max_rounds, however
\* many of them there are (here: even when progress has taken back the retry
\* of every failure but the last).
C12_Original == (pc = "done" /\ retries <= 1) => rounds = MAX_ROUNDS

\* C12 (amended): in a run whose every successful round makes progress the
\* retry cap is never reached, but the backoff is never reset: the run ends
\* either because rounds reached max_rounds or on its fourth failed request,
\* when backoff_secs reaches MAX_BACKOFF.
C12_Progressing ==
    /\ retries < MAX_RETRIES
    /\ failures <= Log2(MAX_BACKOFF)
    /\ pc = "done"
          => \/ rounds = MAX_ROUNDS
             \/ failures = Log2(MAX_BACKOFF) /\ backoff_secs = MAX_BACKOFF
    /\ (pc = "head" /\ failures < Log2(MAX_BACKOFF) /\ rounds < MAX_ROUNDS)
          => ~ShouldBreak(rounds, retries, backoff_secs)

C12_Witness ==
    /\ pc = "done"
    /\ rounds < MAX_ROUNDS
    /\ rounds >= 2
    /\ Cardinality(subdomains) >= 2
    /\ failures = Log2(MAX_BACKOFF)
    /\ retries <= 1

\* C13: with a page cap above MAX_RETRIES, a run whose requests all succeed
\* and whose rounds never find anything new ends, after exactly MAX_RETRIES
\* rounds: page = retries = MAX_RETRIES, and its MAX_RETRIES requests asked
\* for the pages 0, 1, ..., MAX_RETRIES - 1 in this order.
C13_Stagnant ==
    /\ <>(pc = "done")
    /\ [](pc = "done"
            => /\ rounds = MAX_RETRIES
               /\ page = MAX_RETRIES
               /\ retries = MAX_RETRIES
               /\ requests = MAX_RETRIES
               /\ failures = 0
               /\ subdomains = {})
    /\ [][pc = "search" => (page = requests /\ page < MAX_RETRIES)]_vars

C13_Witness ==
    /\ pc = "done"
    /\ MAX_ROUNDS > MAX_RETRIES
    /\ rounds = MAX_RETRIES
    /\ page = MAX_RETRIES
    /\ requests = MAX_RETRIES

\* C18: a body the extractor cannot parse does not end the loop: extract
\* gives the empty set, the accumulator stays as it is, the round counts as a
\* round without progress (page + 1, retries + 1, backoff_secs unchanged) and
\* goes on to the delay and to rounds + 1.
C18_Malformed ==
    /\ [](Extract(Malformed) = {})
    /\ [](pc = "body" => ENABLED ExtractAndDecideOn(Malformed))
    /\ [][ExtractAndDecideOn(Malformed)
            => /\ subdomains' = subdomains
               /\ found' = found
               /\ page' = page + 1
               /\ retries' = retries + 1
               /\ rounds' = rounds
               /\ backoff_secs' = backoff_secs
               /\ ret' = NotReturned
               /\ pc' = "delay"]_vars
    /\ [][pc = "delay"
            => /\ rounds' = rounds + 1
               /\ backoff_secs' = backoff_secs
               /\ subdomains' = subdomains
               /\ pc' = "head"]_vars

C18_Witness ==
    /\ pc = "head"
    /\ Cardinality(subdomains) = 1
    /\ found = 1
    /\ rounds = 2
    /\ page = 1
    /\ retries = 1
    /\ backoff_secs = 1
    /\ requests = 2
    /\ body_failures = 0

\* The tasks whose enumerate panicked.
Panicked == {i \in TaskIds : join_set[i].pc = "panicked"}

\* The tasks inside the write of the global set.
Writers == {i \in TaskIds : join_set[i].pc = "locked"}

\* C14: the runner prints only after every spawned task is complete, and
\* what it prints is, in some order and each hostname once, the union of the
\* sets the enumerate calls of all engines returned.
C14_PrintsUnionAfterAll ==
    /\ run_pc # "done" => printed = << >>
    /\ run_pc \in {"print", "done"}
          => /\ Len(join_set) = engines
             /\ AllFinished
             /\ global_subdomains = returned
    /\ run_pc = "done"
          => /\ Range(printed) = returned
             /\ Len(printed) = Cardinality(returned)

C14_Witness ==
    /\ run_pc = "done"
    /\ engines = 2
    /\ Len(printed) = 3
    /\ printed[1] > printed[2]

\* C15: the global set changes only in the step of the task that holds the
\* mutex, by the union with the set that task's enumerate returned; every
\* task writes at most once, a complete task has written exactly once, no
\* two tasks are inside the write together, and once all are complete the
\* global set is the union of everything returned.
C15_MutexDiscipline ==
    /\ [](Cardinality(Writers) <= 1)
    /\ [](\A i \in TaskIds :
            /\ join_set[i].pc = "locked" <=> guard = i
            /\ join_set[i].writes = (IF join_set[i].pc = "finished" THEN 1 ELSE 0))
    /\ [](AllFinished => global_subdomains = returned)
    /\ [][global_subdomains' # global_subdomains
            => \E i \in TaskIds :
                  /\ guard = i
                  /\ join_set[i].pc = "locked"
                  /\ join_set'[i].pc = "finished"
                  /\ join_set[i].found \subseteq returned
                  /\ global_subdomains' = global_subdomains \cup join_set[i].found]_vars

C15_Witness ==
    /\ Len(join_set) = 2
    /\ join_set[1].pc = "locked"
    /\ join_set[2].pc = "returned"
    /\ join_set[1].found # {}
    /\ join_set[2].found # {}
    /\ join_set[1].found # join_set[2].found

\* C16: when the enumerate of one task panics, the failure stays in that
\* task: the runner does not fail and cancels no other task, and when it is
\* done every other task is complete and it has printed the union of their sets.
C16_PanicIsolated ==
    Cardinality(Panicked) = 1
      => /\ run_pc # "panicked"
         /\ \A i \in TaskIds : join_set[i].pc # "cancelled"
         /\ run_pc = "done"
               => /\ \A i \in TaskIds \ Panicked : join_set[i].pc = "finished"
                  /\ Range(printed) = returned

\* C17: every hostname an adapter's extract returns for the domain D is D
\* itself or ends with "." followed by D; a name that merely has D as a
\* string suffix, or has nothing to do with D, is never returned.
C17_InDomain ==
    adapter_pc = "extracted" =>
        \A h \in extracted.hosts : h = domain \/ EndsWith(h, <<".">> \o domain)

\* The first two words of the engine's query for the domain d.
PositiveFilter(e, d) ==
    CASE e = "Google" -> Chars("site:") \o d
      [] e = "Bing" -> Chars("domain:") \o d
      [] e = "Yahoo" -> Chars("site:") \o d

WwwExclusion(e, d) ==
    CASE e = "Google" -> Chars("-www.") \o d
      [] e = "Bing" -> Chars("-www.") \o d
      [] e = "Yahoo" -> Chars("-domain:www.") \o d

\* The word that excludes the hostname h.
ExclusionWord(e, h) ==
    CASE e = "Google" -> Chars("-") \o h
      [] e = "Bing" -> Chars("-") \o h
      [] e = "Yahoo" -> Chars("-domain:") \o h

\* C19: the query a search engine builds from the set S, read word by word
\* (words are separated by single spaces), is the positive filter on D, the
\* exclusion of www.D, and then the exclusion words of the elements of S,
\* each exactly once and whole, in some order; for the empty S it is just
\* the first two.
C19_QueryShape ==
    adapter_pc = "queried" =>
        LET words == Split(query, " ")
            n == Cardinality(known)
        IN  /\ Len(words) = 2 + n
            /\ words[1] = PositiveFilter(engine, domain)
            /\ words[2] = WwwExclusion(engine, domain)
            /\ \E o \in Orders(known) :
                  \A i \in 1 .. n : words[2 + i] = ExclusionWord(engine, o[i])
            /\ known = {} =>
                  query = PositiveFilter(engine, domain) \o <<" ">>
                            \o WwwExclusion(engine, domain)

\* Yahoo's query for two or more hostnames that excludes the longest one first.
C19_Witness ==
    /\ adapter_pc = "queried"
    /\ engine = "Yahoo"
    /\ Cardinality(known) >= 2
    /\ Split(query, " ")[3] = Chars("-domain:") \o Sub(MaxKnown, domain)

\* The body holds nothing for the engine to find: it is empty, or the
\* pattern matches nowhere in it, or no line of it has a comma, or it is not
\* a document of the engine's response type or one without records.
NothingToFind(e, d, b) ==
    \/ b.text = << >>
    \/ e \in RegexEngines /\ NoMatch(Pattern(e, d), b.text)
    \/ e = "HackerTarget" /\ IndexOf(b.text, ",") = 0
    \/ e \in JsonEngines /\ (~b.doc.ok \/ b.doc.items = << >>)

\* C20: extract on the empty body, or on a body with nothing to find,
\* returns the empty set.
C20_NothingFound ==
    (adapter_pc = "extracted" /\ NothingToFind(engine, domain, body)) =>
        extracted = Extracted({})

\* C29: a request can fail wherever one is made, and the step of a failed
\* request sleeps for the backoff as it was before the step, adds 1 to
\* retries, doubles backoff_secs, leaves page, rounds, found and the
\* accumulator alone and goes straight back to the loop head, past extract
\* and delay; no other step leads from the request to the loop head.
C29_FailedRequest ==
    /\ [](pc = "search" => ENABLED SearchFailed)
    /\ [][ failures' = failures + 1 =>
              /\ pc = "search"
              /\ sleeps' = Append(sleeps, backoff_secs)
              /\ retries' = retries + 1
              /\ backoff_secs' = 2 * backoff_secs
              /\ page' = page
              /\ rounds' = rounds
              /\ found' = found
              /\ subdomains' = subdomains
              /\ ret' = ret
              /\ pc' = "head" ]_vars
    /\ [][ (pc = "search" /\ pc' = "head") => failures' = failures + 1 ]_vars

\* Two failed requests after a round with and a round without progress.
C29_Witness ==
    /\ pc = "head"
    /\ sleeps = <<1, 2>>
    /\ backoff_secs = 4
    /\ rounds = 2
    /\ page = 1
    /\ found > 0
    /\ retries = 3

\* C30: the step of a failed body read adds 1 to retries and goes back to
\* the loop head without a sleep, leaving backoff_secs, page, rounds, found
\* and the accumulator alone, past extract and delay; a run in which every
\* request met a failed body read has retries equal to its requests, never
\* slept, and (unless max_rounds is 0 or the adapter ran out of queries)
\* has made exactly MAX_RETRIES requests when it is over.
C30_BodyReadFailure ==
    /\ [](pc = "body" => ENABLED BodyFailed)
    /\ [][ body_failures' = body_failures + 1 =>
              /\ pc = "body"
              /\ retries' = retries + 1
              /\ sleeps' = sleeps
              /\ backoff_secs' = backoff_secs
              /\ page' = page
              /\ rounds' = rounds
              /\ found' = found
              /\ subdomains' = subdomains
              /\ requests' = requests
              /\ ret' = ret
              /\ pc' = "head" ]_vars
    /\ []((body_failures = requests /\ pc \in {"head", "done"}) =>
              /\ retries = requests
              /\ sleeps = << >>
              /\ backoff_secs = 1
              /\ rounds = 0
              /\ page = 0
              /\ subdomains = {})
    /\ []((pc = "done" /\ ~stop /\ MAX_ROUNDS > 0 /\ body_failures = requests) =>
              requests = MAX_RETRIES)

\* A run of ten requests whose body reads all failed, over without a sleep.
C30_Witness ==
    /\ pc = "done"
    /\ ~stop
    /\ MAX_ROUNDS > 0
    /\ body_failures = MAX_RETRIES
    /\ requests = MAX_RETRIES
    /\ sleeps = << >>

\* The spans <<start, end>> of the matches captures_iter finds in s from pos.
RECURSIVE Spans(_, _, _)
Spans(re, s, pos) ==
    IF pos > Len(s)
    THEN {}
    ELSE LET ways == Matches(re, s, pos)
         IN  IF ways = << >>
             THEN Spans(re, s, pos + 1)
             ELSE {<<pos, ways[1].end>>}
                    \cup Spans(re, s, IF ways[1].end > pos THEN ways[1].end ELSE pos + 1)

\* A match found in a ++ b begins in a and ends in b.
Straddles(e, d, a, b) ==
    \E m \in Spans(Pattern(e, d), a \o b, 0) : m[1] < Len(a) /\ m[2] > Len(a)

\* C21 as stated: for a regex extractor and any two bodies a and b, extract
\* of a ++ b is the union of extract of a and extract of b.
C21_Original ==
    adapter_pc = "extracted" =>
        extracted.hosts = extracted_halves[1].hosts \cup extracted_halves[2].hosts

\* C21: for a regex extractor, everything extract finds in a it also finds
\* in a ++ b, and extract of a ++ b is the union of extract of a and extract
\* of b whenever no match found in a ++ b begins in a and ends in b.
C21_Concat ==
    adapter_pc = "extracted" =>
        /\ extracted_halves[1].hosts \subseteq extracted.hosts
        /\ ~Straddles(engine, domain, halves[1], halves[2]) =>
              extracted.hosts = extracted_halves[1].hosts \cup extracted_halves[2].hosts

\* Two bodies with one result each, different ones, and nothing across the seam.
C21_Witness ==
    /\ adapter_pc = "extracted"
    /\ ~Straddles(engine, domain, halves[1], halves[2])
    /\ Cardinality(extracted_halves[1].hosts) = 1
    /\ Cardinality(extracted_halves[2].hosts) = 1
    /\ Cardinality(extracted.hosts) = 2

\* C22: on a page made of well-formed result blocks of the engine, one for
\* each of the hostnames X1.D .. Xk.D (hyphenated and multi-label ones
\* among them), a regex extractor returns exactly the set of these
\* hostnames.
C22_ExactlyTheBlocks ==
    adapter_pc = "extracted" => extracted = Extracted(Range(blocks))

\* h is one of the newline-separated pieces of nv: a stretch of nv without a
\* newline, with a newline or an end of nv on either side.
IsPiece(nv, h) ==
    \E i \in 1 .. (Len(nv) + 1), j \in 0 .. Len(nv) :
        /\ j >= i - 1
        /\ h = SubSeq(nv, i, j)
        /\ \A k \in i .. j : nv[k] # "\n"
        /\ i = 1 \/ nv[i - 1] = "\n"
        /\ j = Len(nv) \/ nv[j + 1] = "\n"

\* The stretches of nv.
Stretches(nv) == {SubSeq(nv, i, j) : i \in 1 .. (Len(nv) + 1), j \in 0 .. Len(nv)}

\* C23: on a body that is a JSON array of items, CrtSh's extract returns
\* the set of the newline-separated pieces of the name_value of every item:
\* every piece is in it, once, and nothing else is.
C23_CrtShPieces ==
    (adapter_pc = "extracted" /\ engine = "CrtSh" /\ body.doc.ok) =>
        LET items == body.doc.items
        IN  /\ ~extracted.panicked
            /\ \A h \in extracted.hosts : \E i \in 1 .. Len(items) : IsPiece(items[i], h)
            /\ \A i \in 1 .. Len(items) :
                  \A h \in Stretches(items[i]) : IsPiece(items[i], h) => h \in extracted.hosts

\* Two items, the first with two hostnames on two lines, the second with
\* one of them again: two hostnames extracted.
C23_Witness ==
    /\ adapter_pc = "extracted"
    /\ engine = "CrtSh"
    /\ body.doc.ok
    /\ Len(body.doc.items) = 2
    /\ IndexOf(body.doc.items[1], "\n") # 0
    /\ IsPiece(body.doc.items[1], body.doc.items[2])
    /\ Cardinality(extracted.hosts) = 2

\* The hostname h is on the domain d: it is d or a name under d.
OnDomain(h, d) == h = d \/ EndsWith(h, <<".">> \o d)

\* C24: on a passive-DNS response, AlienVault's extract returns exactly the
\* hostnames of the response that are on the domain D: every on-domain
\* hostname is kept and every off-domain hostname is removed.
C24_AlienVaultRefilter ==
    (adapter_pc = "extracted" /\ engine = "AlienVault" /\ body.doc.ok) =>
        extracted = Extracted({h \in Range(body.doc.items) : OnDomain(h, domain)})

\* C27: DNSDumpster's search sends the preflight GET first and a POST only
\* right after a GET; when the preflight page yields no token the POST is
\* sent all the same, with an empty Authorization, and the remote's
\* rejection takes the failure path of the loop (retries + 1, backoff_secs
\* doubled, rounds and page unchanged, back to the loop head); when the
\* preflight itself fails no POST follows and the same failure path is
\* taken.
C27_Preflight ==
    /\ [](\A i \in 1 .. Len(wire) : wire[i][1] = "POST" => (i > 1 /\ wire[i - 1] = Get))
    /\ []((pc = "search" /\ authorization = NotSearching) =>
             /\ ENABLED PreflightFails
             /\ ENABLED (PreflightOk /\ authorization' = "")
             /\ ENABLED (PreflightOk /\ authorization' = ScrapedToken))
    /\ [][ (pc = "search" /\ authorization = NotSearching) =>
              /\ wire' = Append(wire, Get)
              /\ (pc' = "search" /\ authorization' \in {"", ScrapedToken} /\ UNCHANGED enumerator_vars)
                 \/ (/\ pc' = "head"
                     /\ authorization' = NotSearching
                     /\ retries' = retries + 1
                     /\ backoff_secs' = 2 * backoff_secs
                     /\ rounds' = rounds
                     /\ page' = page) ]_vars
    /\ []((pc = "search" /\ authorization = "") => ENABLED PostFails)
    /\ [][ (pc = "search" /\ authorization = "") =>
              /\ wire' = Append(wire, Post(""))
              /\ pc' = "head"
              /\ retries' = retries + 1
              /\ backoff_secs' = 2 * backoff_secs
              /\ rounds' = rounds
              /\ page' = page ]_vars

\* A failed preflight, then a preflight without a token and its rejected POST.
C27_Witness ==
    /\ pc = "head"
    /\ wire = <<Get, Get, Post("")>>
    /\ retries = 2
    /\ backoff_secs = 4
    /\ rounds = 0

\* C25: under the enumeration loop the first query of VirusTotal is the
\* base endpoint without a cursor; every query generated after a response
\* that deserialized with a cursor is the base endpoint with exactly the
\* cursor of the response deserialized last; and once the response
\* deserialized last had no cursor, the query step ends the run with the
\* stop signal and no further request is made.
C25_CursorPagination ==
    /\ []((pc = "search" /\ last_cursor = Unread) => query = BaseQuery(domain))
    /\ []((pc = "search" /\ last_cursor # Unread) =>
             (/\ last_cursor \in Cursors
              /\ query = BaseQuery(domain) \o <<"?cursor=", last_cursor>>))
    /\ [][ last_cursor = "null" =>
              /\ requests' = requests
              /\ pc = "query" => (pc' = "done" /\ stop') ]_vars

\* Two pages with cursors were read, the second query carried the first
\* cursor, and a third page without a cursor ended the stream.
C25_Witness ==
    /\ pc = "done"
    /\ stop
    /\ requests = 3
    /\ last_cursor = "null"
    /\ query = BaseQuery(domain) \o <<"?cursor=", "c2">>

\* C26: when the body read last was not a VirusTotalResponse, the query
\* step ends the run with the stop signal and no further request is made.
C26_MalformedEndsStream ==
    [][ last_malformed =>
           /\ requests' = requests
           /\ pc = "query" => (pc' = "done" /\ stop') ]_vars

\* C28: with two instances of one regex adapter, whatever the order of
\* their extract calls, each call returns what the pattern built from the
\* domain of its own instance captures; the regex cell is written at most
\* once and never changes once written.
C28_RegexPerInstance ==
    /\ [](\A i \in Instances :
             callers[i] = "done" => outputs[i] = RegexExtract(engine, instances[i], body.text))
    /\ [](inits <= 1)
    /\ [][RE # Uninit => RE' = RE]_vars

\* C31: the extract step of a round that grew the set beyond found sets
\* found to the new size, retries to max(retries - 2, 0) and keeps page;
\* the extract step of any other round adds 1 to page and to retries and
\* keeps found; either way backoff_secs and rounds are kept by that step,
\* and the one step that follows it, the delay, adds 1 to rounds and
\* changes nothing else of the loop.
C31_ProgressDecision ==
    /\ [][ ExtractStep =>
              /\ IF Cardinality(subdomains') > found
                 THEN /\ found' = Cardinality(subdomains')
                      /\ retries' = Max(retries - 2, 0)
                      /\ page' = page
                 ELSE /\ page' = page + 1
                      /\ retries' = retries + 1
                      /\ found' = found
              /\ backoff_secs' = backoff_secs
              /\ rounds' = rounds
              /\ sleeps' = sleeps ]_vars
    /\ [][ pc = "delay" =>
              /\ pc' = "head"
              /\ rounds' = rounds + 1
              /\ iterations' = iterations + 1
              /\ UNCHANGED <<retries, page, backoff_secs, found, subdomains, sleeps, requests>> ]_vars

\* A round without progress, then a progress round that gave two retries
\* back, both followed by their delay.
C31_Witness ==
    /\ pc = "head"
    /\ rounds = 3
    /\ page = 2
    /\ found = 1
    /\ retries = 0
    /\ failures = 0
    /\ body_failures = 0

\* C32: no step lowers backoff_secs and a step that is not a failed request
\* keeps it, so in a whole run at most 4 requests fail, the sleeps taken are
\* the first of 1, 2, 4, 8 seconds in that order, and no sleep is of 16
\* seconds or more.
C32_BackoffNeverReset ==
    /\ [][ /\ backoff_secs' >= backoff_secs
           /\ failures' = failures => backoff_secs' = backoff_secs ]_vars
    /\ [](/\ failures <= 4
          /\ Len(sleeps) = failures
          /\ sleeps = SubSeq(<<1, 2, 4, 8>>, 1, Len(sleeps))
          /\ \A i \in 1 .. Len(sleeps) : sleeps[i] < MAX_BACKOFF)

\* Four failed requests with progress rounds in between: the run is over.
C32_Witness ==
    /\ pc = "done"
    /\ sleeps = <<1, 2, 4, 8>>
    /\ rounds = 3
    /\ found = 3
    /\ retries = 1

\* C34: outside the extract step's own assignments found is the size of
\* the set, in particular at every loop head; so in the extract step the
\* test found # |S| is true exactly when |S| > found; found never exceeds
\* |S| and no step lowers it.
C34_FoundIsSize ==
    /\ [](found = Cardinality(subdomains))
    /\ [][ ExtractStep =>
              ((found # Cardinality(subdomains')) <=> (Cardinality(subdomains') > found)) ]_vars
    /\ [][ found' >= found ]_vars

\* Back at the loop head after a progress round and a round without progress.
C34_Witness ==
    /\ pc = "head"
    /\ rounds = 2
    /\ page = 1
    /\ found = 2
    /\ Cardinality(subdomains) = 2

\* C35: retries stays within 0..MAX_RETRIES, backoff_secs within
\* 1..MAX_BACKOFF and rounds within 0..max_rounds; no step of the loop makes
\* an 8-bit counter wrap: each increment of retries and each doubling of
\* backoff_secs gives the exact sum or product.
C35_CountersInRange ==
    /\ [](/\ retries \in 0 .. MAX_RETRIES
          /\ backoff_secs \in 1 .. MAX_BACKOFF
          /\ rounds \in 0 .. MAX_ROUNDS)
    /\ [][ /\ retries' > retries => (retries' = retries + 1 /\ retries + 1 < U8)
           /\ backoff_secs' # backoff_secs =>
                 (backoff_secs' = 2 * backoff_secs /\ 2 * backoff_secs < U8) ]_vars

\* Both 8-bit counters at their caps at once.
C35_Witness ==
    /\ retries = MAX_RETRIES
    /\ backoff_secs = MAX_BACKOFF
    /\ rounds > 0

\* C36 (as claimed): in every reachable state page <= rounds and rounds is
\* page plus the number of progress rounds so far.
C36_Original == page <= rounds /\ rounds = page + progress_rounds

\* C36 (amended): wherever the loop is outside the delay of a round, page
\* <= rounds and rounds = page + the number of progress rounds; during the
\* delay, which comes after the decision and before rounds += 1, the round
\* is counted in page or in the progress rounds and not yet in rounds; the
\* page given to search is at most max_rounds - 1.
C36_PageAndRounds ==
    /\ pc # "delay" => (page <= rounds /\ rounds = page + progress_rounds)
    /\ pc = "delay" => (page <= rounds + 1 /\ rounds + 1 = page + progress_rounds)
    /\ pc = "search" => page <= MAX_ROUNDS - 1

\* The last round the page cap allows is asked for with the highest page.
C36_Witness ==
    /\ pc = "search"
    /\ page = MAX_ROUNDS - 1
    /\ page > 1
    /\ failures > 0

\* The responses extracted so far: the requests that neither failed nor had
\* their body read fail, less the one whose body is being read.
Extractions == requests - failures - body_failures - (IF pc = "body" THEN 1 ELSE 0)

\* C33: in a run of a single-shot adapter at most one response is
\* extracted; once a response has been extracted no further request is
\* made; a failed request neither counts a round nor sets the once flag,
\* and as long as nothing was extracted and no cap is reached the loop
\* goes on to another request after it.
C33_SingleShot ==
    /\ [](Extractions <= 1)
    /\ [][ Extractions = 1 => requests' = requests ]_vars
    /\ [][ failures' # failures => (rounds' = rounds /\ once' = once /\ pc' = "head") ]_vars
    /\ []((pc = "head" /\ ~once /\ rounds = 0 /\ ~CapReached) => ENABLED PreCheckPass)
    /\ []((pc = "query" /\ ~once) => ENABLED DomainQueried)
    /\ [](pc = "search" => (ENABLED ShotFetched /\ ENABLED SearchFailed))

\* Two failed requests, then the request that was answered and extracted:
\* the run ended at the page cap without a fourth request.
C33_Witness ==
    /\ pc = "done"
    /\ ~stop
    /\ failures = 2
    /\ requests = 3
    /\ rounds = 1
    /\ found > 0

====
